---- MODULE Spec2Model ----
(***************************************************************************)
(* Retrieval and context-assembly pipeline of the multimodal RAG backend.  *)
(*                                                                         *)
(* The repository ships the same two request handlers (ingestText and      *)
(* chatRag) in four deployments:                                           *)
(*   "memory"       src/unnamed/part_000        express, in-memory store   *)
(*   "express"      src/functions/server.js     express, Firestore         *)
(*   "functions"    src/unnamed/part_001:1-237  cloud functions, Firestore *)
(*   "functionsRag" src/unnamed/part_001:239-440 cloud functions,          *)
(*                                              chatRag without classifier *)
(*                                                                         *)
(* Text is a sequence of one-character strings.  Embedding components are  *)
(* integers and a similarity score dot/(sqrt(na)*sqrt(nb)) is kept exactly *)
(* as the pair  num = dot, den2 = na*nb  (floating-point rounding is not   *)
(* modelled).                                                              *)
(***************************************************************************)
EXTENDS Integers, Sequences, FiniteSets, TLC

VARIABLES
    deployment,   \* which of the four source files is running
    apiKey,       \* GEMINI_API_KEY of the process: "absent", "short" or "valid"
    ragChunks,    \* the chunk store, in the order the records were committed
    nextId,       \* part_000: the auto-incrementing id counter
    now,          \* Date.now(), a non-decreasing clock
    reqs,         \* the requests in flight or answered, one record per request
    call          \* a single call of a pure helper (chunkText, cosineSimilarity, ...)

vars == <<deployment, apiKey, ragChunks, nextId, now, reqs, call>>
mainVars == <<deployment, apiKey, ragChunks, nextId, now, reqs>>

\* ------------------------------------------------------------------ bounds
MaxTextLen == 4        \* longest text handed to a lone chunkText call
MaxM == 5              \* largest maxChars handed to a lone chunkText call
MaxDim == 3            \* longest vector handed to a lone cosineSimilarity call

\* ------------------------------------------------------ program constants
DefaultMaxChars == 800
TopK == 5
GreetingMaxWords == 5

\* ----------------------------------------------------------------- helpers
Min(x, y) == IF x < y THEN x ELSE y

SeqsUpTo(S, n) == UNION {[1..k -> S] : k \in 0..n}

RECURSIVE Concat(_)
Concat(ss) == IF ss = <<>> THEN <<>> ELSE Head(ss) \o Concat(Tail(ss))

\* String.prototype.slice(start, end) for 0 <= start <= end: end is clipped
\* to the length, the first character has index 0.
Slice(text, start, end) ==
    LET e == Min(end, Len(text))
    IN  IF start >= e THEN <<>> ELSE SubSeq(text, start + 1, e)

\* --------------------------------------------------------------- chunkText
\* One iteration of the while loop: push the slice, advance start.
chunkBodySkip(text, maxChars, st) ==
    [start  |-> st.start + maxChars + 1,
     chunks |-> Append(st.chunks, Slice(text, st.start, st.start + maxChars))]

chunkBody(text, maxChars, st) ==
    [start  |-> st.start + maxChars,
     chunks |-> Append(st.chunks, Slice(text, st.start, st.start + maxChars))]

chunkCond(text, st) == st.start < Len(text)

RECURSIVE chunkLoop(_, _, _)
chunkLoop(text, maxChars, st) ==
    IF chunkCond(text, st)
    THEN chunkLoop(text, maxChars, chunkBody(text, maxChars, st))
    ELSE st.chunks

chunkText(text, maxChars) ==
    chunkLoop(text, maxChars, [start |-> 0, chunks |-> <<>>])

\* -------------------------------------------------------- cosineSimilarity
NaN == [nan |-> TRUE]
Number(num, den2) == [nan |-> FALSE, num |-> num, den2 |-> den2]
Zero == Number(0, 1)

\* dot / (Math.sqrt(na) * Math.sqrt(nb)); 0/0 is NaN.
Divide(dot, na, nb) ==
    IF na * nb = 0 THEN NaN ELSE Number(dot, na * nb)

RECURSIVE cosineLoop(_, _, _, _, _)
cosineLoop(a, b, len, i, acc) ==
    IF i < len
    THEN cosineLoop(a, b, len, i + 1,
                    [dot |-> acc.dot + a[i + 1] * b[i + 1],
                     na  |-> acc.na + a[i + 1] * a[i + 1],
                     nb  |-> acc.nb + b[i + 1] * b[i + 1]])
    ELSE acc

cosineLen(a, b) == Min(Len(a), Len(b))

cosineGuardNone(acc) == FALSE

cosineGuard(acc) == acc.na = 0 \/ acc.nb = 0

\* Reading past the end of an array gives undefined, and undefined * x is NaN.
cosineSimilarity(a, b) ==
    LET len == cosineLen(a, b)
    IN  IF len > Min(Len(a), Len(b)) THEN NaN
        ELSE LET acc == cosineLoop(a, b, len, 0, [dot |-> 0, na |-> 0, nb |-> 0])
             IN  IF cosineGuard(acc) THEN Zero
                 ELSE Divide(acc.dot, acc.na, acc.nb)

\* Sign of x - y for two scores that are numbers.
Sgn(n) == IF n > 0 THEN 1 ELSE IF n < 0 THEN -1 ELSE 0
SignedSquare(s, t) == Sgn(s.num) * s.num * s.num * t.den2
Compare(s, t) == Sgn(SignedSquare(s, t) - SignedSquare(t, s))

\* ================================================================ lone calls
\* The process state while a helper is exercised on its own.
Idle ==
    /\ deployment = "memory"
    /\ apiKey = "valid"
    /\ ragChunks = <<>>
    /\ nextId = 1
    /\ now = 0
    /\ reqs = <<>>

\* ------------------------------------------------- chunkText(T, M) alone
TextChars == {"a", "b"}

InitChunk ==
    /\ Idle
    /\ \E text \in SeqsUpTo(TextChars, MaxTextLen), m \in 1..MaxM :
          call = [op |-> "chunkText", text |-> text, maxChars |-> m,
                  start |-> 0, chunks |-> <<>>, pc |-> "loop"]

ChunkStep ==
    /\ call.op = "chunkText" /\ call.pc = "loop"
    /\ chunkCond(call.text, call)
    /\ LET st == chunkBody(call.text, call.maxChars, call)
       IN  call' = [call EXCEPT !.start = st.start, !.chunks = st.chunks]
    /\ UNCHANGED mainVars

ChunkReturn ==
    /\ call.op = "chunkText" /\ call.pc = "loop"
    /\ ~chunkCond(call.text, call)
    /\ call' = [call EXCEPT !.pc = "done"]
    /\ UNCHANGED mainVars

NextChunk == ChunkStep \/ ChunkReturn

SpecChunk == InitChunk /\ [][NextChunk]_vars /\ WF_vars(NextChunk)

CeilDiv(n, m) == (n + m - 1) \div m

ChunksRight(text, maxChars, chunks) ==
    /\ Concat(chunks) = text
    /\ Len(chunks) = CeilDiv(Len(text), maxChars)
    /\ \A i \in 1..Len(chunks) : Len(chunks[i]) <= maxChars

\* C1: for every text T and every maxChars M > 0, chunkText(T, M) terminates
\* and returns chunks whose concatenation is T, whose count is ceil(len(T)/M)
\* (none for the empty text) and none of which is longer than M.
C1_ChunkText ==
    /\ [](call.pc = "done" =>
            /\ ChunksRight(call.text, call.maxChars, call.chunks)
            /\ call.chunks = chunkText(call.text, call.maxChars))
    /\ <>(call.pc = "done")

\* A text of several chunks whose last chunk is shorter than the others.
C1_Witness ==
    /\ call.op = "chunkText" /\ call.pc = "done"
    /\ Len(call.chunks) >= 2
    /\ Len(call.text) % call.maxChars # 0

\* ------------------------------------------- cosineSimilarity(a, b) alone
Components == -1..1

InitCos ==
    /\ Idle
    /\ \E a \in SeqsUpTo(Components, MaxDim), b \in SeqsUpTo(Components, MaxDim) :
          call = [op |-> "cosineSimilarity", a |-> a, b |-> b,
                  result |-> Zero, pc |-> "call"]

CosReturn ==
    /\ call.op = "cosineSimilarity" /\ call.pc = "call"
    /\ call' = [call EXCEPT !.result = cosineSimilarity(call.a, call.b),
                            !.pc = "done"]
    /\ UNCHANGED mainVars

NextCos == CosReturn

SpecCos == InitCos /\ [][NextCos]_vars

AllZero(v) == \A i \in 1..Len(v) : v[i] = 0

RECURSIVE SumProd(_, _, _)
SumProd(a, b, m) == IF m = 0 THEN 0 ELSE SumProd(a, b, m - 1) + a[m] * b[m]

\* C2: cosineSimilarity(a, b) uses only the first min(len(a), len(b))
\* components and never fails; if either vector is empty or all-zero the
\* result is exactly 0, never NaN.
C2_Cosine ==
    call.op = "cosineSimilarity" /\ call.pc = "done" =>
        LET m == Min(Len(call.a), Len(call.b))
            pa == SubSeq(call.a, 1, m)
            pb == SubSeq(call.b, 1, m)
        IN  /\ call.result.nan = FALSE
            /\ call.result = cosineSimilarity(pa, pb)
            /\ SumProd(pa, pa, m) * SumProd(pb, pb, m) # 0 =>
                  call.result = Number(SumProd(pa, pb, m),
                                       SumProd(pa, pa, m) * SumProd(pb, pb, m))
            /\ (AllZero(call.a) \/ AllZero(call.b)) => call.result = Zero

\* Unequal lengths, the longer vector non-zero only beyond the common prefix.
C2_Witness ==
    /\ call.op = "cosineSimilarity" /\ call.pc = "done"
    /\ Len(call.a) > Len(call.b) /\ Len(call.b) > 0
    /\ ~AllZero(call.a) /\ AllZero(SubSeq(call.a, 1, Len(call.b)))
    /\ ~AllZero(call.b)
    /\ call.result = Zero

\* ============================================================== classifier
LowerAlpha ==
    <<"a", "b", "c", "d", "e", "f", "g", "h", "i", "j", "k", "l", "m", "n", "o",
    "p", "q", "r", "s", "t", "u", "v", "w", "x", "y", "z">>
UpperAlpha ==
    <<"A", "B", "C", "D", "E", "F", "G", "H", "I", "J", "K", "L", "M", "N", "O",
    "P", "Q", "R", "S", "T", "U", "V", "W", "X", "Y", "Z">>
Digits == {"0", "1", "2", "3", "4", "5", "6", "7", "8", "9"}
Range(f) == {f[i] : i \in DOMAIN f}

\* \s of a regular expression and the characters String.prototype.trim drops.
IsSpace(c) == c \in {" ", "\t", "\n"}
\* \w of a regular expression without the u flag.
IsWordChar(c) == c \in Range(LowerAlpha) \cup Range(UpperAlpha) \cup Digits \cup {"_"}

toLowerCase(s) ==
    [i \in 1..Len(s) |->
        IF \E k \in 1..26 : UpperAlpha[k] = s[i]
        THEN LowerAlpha[CHOOSE k \in 1..26 : UpperAlpha[k] = s[i]]
        ELSE s[i]]

RECURSIVE trimStart(_)
trimStart(s) == IF s # <<>> /\ IsSpace(Head(s)) THEN trimStart(Tail(s)) ELSE s
RECURSIVE trimEnd(_)
trimEnd(s) ==
    IF s # <<>> /\ IsSpace(s[Len(s)]) THEN trimEnd(SubSeq(s, 1, Len(s) - 1)) ELSE s
trim(s) == trimEnd(trimStart(s))

\* String.prototype.split(/\s+/): the pieces between the maximal runs of
\* whitespace, an empty piece before a leading and after a trailing run.
RECURSIVE splitLoop(_, _, _, _)
splitLoop(s, i, piece, out) ==
    IF i > Len(s) THEN Append(out, piece)
    ELSE IF IsSpace(s[i])
         THEN IF i > 1 /\ IsSpace(s[i - 1])
              THEN splitLoop(s, i + 1, piece, out)
              ELSE splitLoop(s, i + 1, <<>>, Append(out, piece))
         ELSE splitLoop(s, i + 1, Append(piece, s[i]), out)
split(s) == splitLoop(s, 1, <<>>, <<>>)

filterBoolean(pieces) == SelectSeq(pieces, LAMBDA p : p # <<>>)

\* The alternatives of greetingRegex; plus: the last letter carries a "+".
greetingAlternatives == {
    [lit |-> <<"h", "i">>, plus |-> TRUE],
    [lit |-> <<"h", "e", "l", "l", "o">>, plus |-> TRUE],
    [lit |-> <<"h", "e", "y">>, plus |-> TRUE],
    [lit |-> <<"y", "o">>, plus |-> TRUE],
    [lit |-> <<"s", "u", "p">>, plus |-> FALSE],
    [lit |-> <<"g", "o", "o", "d", " ", "m", "o", "r", "n", "i", "n", "g">>,
     plus |-> FALSE],
    [lit |-> <<"g", "o", "o", "d", " ", "e", "v", "e", "n", "i", "n", "g">>,
     plus |-> FALSE],
    [lit |-> <<"g", "o", "o", "d", " ", "a", "f", "t", "e", "r", "n", "o", "o", "n">>,
     plus |-> FALSE],
    [lit |-> <<"g", "o", "o", "d", " ", "n", "i", "g", "h", "t">>,
     plus |-> FALSE]}

StartsWith(s, lit) == Len(s) >= Len(lit) /\ SubSeq(s, 1, Len(lit)) = lit

\* The positions at which a match of the alternative, anchored at ^, can end.
MatchEnds(s, alt) ==
    IF ~StartsWith(s, alt.lit) THEN {}
    ELSE IF ~alt.plus THEN {Len(alt.lit)}
    ELSE {e \in Len(alt.lit)..Len(s) :
            \A i \in (Len(alt.lit) + 1)..e : s[i] = alt.lit[Len(alt.lit)]}

IsWordAt(s, i) == i \in 1..Len(s) /\ IsWordChar(s[i])

\* \b between position e and e + 1.
wordBoundary(s, e) == IsWordAt(s, e) # IsWordAt(s, e + 1)

greetingRegexTest(s) ==
    \E alt \in greetingAlternatives :
        \E e \in MatchEnds(s, alt) : wordBoundary(s, e)

wordLimitStrict(wordCount) == wordCount < GreetingMaxWords

wordLimit(wordCount) == wordCount <= GreetingMaxWords

\* normalized, wordCount, isGreeting and the test of the greeting shortcut.
classify(message) ==
    LET normalized == toLowerCase(trim(message))
        wordCount == Len(filterBoolean(split(normalized)))
        isGreeting == greetingRegexTest(normalized)
    IN  IF isGreeting /\ wordLimit(wordCount) THEN "Greeting" ELSE "Question"

IsBlank(message) == trim(message) = <<>>

\* ------------------------------------------------- the classifier alone
MaxExtraWords == 6     \* most words appended to the opening of a message

MessageHeads == {
    <<"h", "i">>,
    <<"H", "i">>,
    <<"H", "I">>,
    <<"h", "i", "i">>,
    <<"h", "i", "i", "i">>,
    <<"h", "i", "t">>,
    <<"h", "i", "s", "t", "o", "r", "y">>,
    <<"h", "i", ",">>,
    <<"h", "i", "!">>,
    <<"h", "i", "_">>,
    <<"h", "i", "5">>,
    <<"h">>,
    <<"h", "e", "l", "l", "o">>,
    <<"h", "e", "l", "l", "o", "o">>,
    <<"H", "E", "L", "L", "O", "O", "O">>,
    <<"h", "e", "l", "l">>,
    <<"h", "e", "l", "l", "o", "w">>,
    <<"h", "e", "l", "l", "o", ",">>,
    <<"h", "e", "y">>,
    <<"h", "e", "y", "y">>,
    <<"h", "e", "y", "a">>,
    <<"y", "o">>,
    <<"y", "o", "o">>,
    <<"y", "o", "y", "o">>,
    <<"y", "o", "u">>,
    <<"s", "u", "p">>,
    <<"s", "u", "p", "p">>,
    <<"s", "u", "p", "e", "r">>,
    <<"s", "u", "p", "?">>,
    <<"g", "o", "o", "d", " ", "m", "o", "r", "n", "i", "n", "g">>,
    <<"G", "o", "o", "d", " ", "M", "o", "r", "n", "i", "n", "g">>,
    <<"g", "o", "o", "d", " ", "e", "v", "e", "n", "i", "n", "g">>,
    <<"g", "o", "o", "d", " ", "a", "f", "t", "e", "r", "n", "o", "o", "n">>,
    <<"g", "o", "o", "d", " ", "n", "i", "g", "h", "t">>,
    <<"g", "o", "o", "d", " ", " ", "m", "o", "r", "n", "i", "n", "g">>,
    <<"g", "o", "o", "d", "\t", "m", "o", "r", "n", "i", "n", "g">>,
    <<"g", "o", "o", "d", "m", "o", "r", "n", "i", "n", "g">>,
    <<"g", "o", "o", "d">>,
    <<"g", "o", "o", "d", " ", "d", "a", "y">>,
    <<"g", "o", "o", "d", " ", "n", "i", "g", "h", "t", "s">>,
    <<"g", "o", "o", "d", " ", "n", "i", "g", "h", "t", "!">>,
    <<"w", "h", "a", "t">>,
    <<"o", "h", "i">>,
    <<"s", "a", "y", " ", "h", "i">>}

RECURSIVE Repeat(_, _)
Repeat(s, n) == IF n = 0 THEN <<>> ELSE s \o Repeat(s, n - 1)

ClassifierMessages ==
    {pad \o head \o Repeat(sep \o <<"w">>, k) \o pad :
        pad \in {<<>>, <<" ">>}, head \in MessageHeads,
        sep \in {<<" ">>, <<" ", "\t">>}, k \in 0..MaxExtraWords}

InitClassify ==
    /\ Idle
    /\ \E message \in ClassifierMessages :
          call = [op |-> "classify", message |-> message,
                  result |-> "none", pc |-> "call"]

ClassifyReturn ==
    /\ call.op = "classify" /\ call.pc = "call"
    /\ call' = [call EXCEPT !.result = classify(call.message), !.pc = "done"]
    /\ UNCHANGED mainVars

NextClassify == ClassifyReturn

SpecClassify == InitClassify /\ [][NextClassify]_vars

\* The greeting words of the claim: a base word with its last letter repeated.
Stretched(base, w) ==
    /\ StartsWith(w, base)
    /\ \A i \in (Len(base) + 1)..Len(w) : w[i] = base[Len(base)]

IsGreetingWord(w) ==
    \/ \E base \in {<<"h", "i">>, <<"h", "e", "l", "l", "o">>,
                    <<"h", "e", "y">>, <<"y", "o">>} : Stretched(base, w)
    \/ w = <<"s", "u", "p">>
    \/ \E part \in {<<"m", "o", "r", "n", "i", "n", "g">>,
                    <<"e", "v", "e", "n", "i", "n", "g">>,
                    <<"a", "f", "t", "e", "r", "n", "o", "o", "n">>,
                    <<"n", "i", "g", "h", "t">>} :
          w = <<"g", "o", "o", "d", " ">> \o part

StartsWithGreetingWord(s) ==
    \E n \in 1..Len(s) :
        /\ IsGreetingWord(SubSeq(s, 1, n))
        /\ n = Len(s) \/ ~IsWordChar(s[n + 1])

\* The number of maximal runs of non-whitespace characters.
WordsIn(s) ==
    Cardinality({i \in 1..Len(s) : ~IsSpace(s[i]) /\ (i = 1 \/ IsSpace(s[i - 1]))})

\* C4: a non-blank message is a Greeting iff its trimmed, lower-cased text
\* starts with a greeting word followed by a word boundary and has at most 5
\* whitespace-separated words; every other message is a Question.
C4_Classifier ==
    call.op = "classify" /\ call.pc = "done" /\ ~IsBlank(call.message) =>
        LET s == toLowerCase(trim(call.message))
        IN  /\ call.result \in {"Greeting", "Question"}
            /\ call.result = "Greeting" <=>
                  (StartsWithGreetingWord(s) /\ WordsIn(s) <= 5)

\* A greeting opening with exactly 6 words, hence a Question.
C4_Witness ==
    /\ call.op = "classify" /\ call.pc = "done"
    /\ StartsWithGreetingWord(toLowerCase(trim(call.message)))
    /\ WordsIn(call.message) = 6
    /\ call.result = "Question"

\* ======================================================== ranking, context
IsFirestore(d) == d \in {"express", "functions", "functionsRag"}

\* Number.prototype.toFixed(3): the sign and the thousandths n with
\* n - 1/2 <= 1000|x| < n + 1/2, for |x| = |num| / sqrt(den2) <= 1.
RECURSIVE fixedSearch(_, _, _, _)
fixedSearch(num, den2, lo, hi) ==
    IF lo = hi THEN lo
    ELSE LET mid == (lo + hi + 1) \div 2
         IN  IF (2 * mid - 1) * (2 * mid - 1) * den2 <= 4000000 * num * num
             THEN fixedSearch(num, den2, mid, hi)
             ELSE fixedSearch(num, den2, lo, mid - 1)

toFixed3(score) ==
    IF score.nan THEN [text |-> "NaN"]
    ELSE [neg |-> score.num < 0,
          thousandths |-> fixedSearch(score.num, score.den2, 0, 1000)]

\* The comparator (a, b) => b.score - a.score; NaN counts as 0 in a sort.
comparator(a, b) ==
    IF a.score.nan \/ b.score.nan THEN 0 ELSE Compare(b.score, a.score)

\* x, met after y, is placed before y only if the comparator says so.
before(x, y) == comparator(y, x) > 0

RECURSIVE insertSorted(_, _)
insertSorted(sorted, x) ==
    IF sorted = <<>> THEN <<x>>
    ELSE IF before(x, sorted[Len(sorted)])
         THEN Append(insertSorted(SubSeq(sorted, 1, Len(sorted) - 1), x),
                     sorted[Len(sorted)])
         ELSE Append(sorted, x)

\* Array.prototype.sort, a stable sort.
RECURSIVE sort(_)
sort(s) ==
    IF s = <<>> THEN <<>>
    ELSE insertSorted(sort(SubSeq(s, 1, Len(s) - 1)), s[Len(s)])

\* db.collection("rag_chunks").get(): the documents in ascending order of
\* document id, whatever the order they were committed in.
RECURSIVE insertById(_, _)
insertById(sorted, x) ==
    IF sorted = <<>> THEN <<x>>
    ELSE IF x.id < sorted[Len(sorted)].id
         THEN Append(insertById(SubSeq(sorted, 1, Len(sorted) - 1), x),
                     sorted[Len(sorted)])
         ELSE Append(sorted, x)
RECURSIVE collectionGet(_)
collectionGet(col) ==
    IF col = <<>> THEN <<>>
    ELSE insertById(collectionGet(SubSeq(col, 1, Len(col) - 1)), col[Len(col)])

\* A listing that stops one record short of the store.
listAllButLast(d, store) ==
    IF IsFirestore(d) THEN collectionGet(SubSeq(store, 1, Len(store) - 1))
    ELSE SubSeq(store, 1, Len(store) - 1)

\* The records the scoring pass runs over.
listAll(d, store) == IF IsFirestore(d) THEN collectionGet(store) ELSE store

\* scored: one candidate per record, in the order of the listing.
scoreOf(queryEmbedding, d) == cosineSimilarity(queryEmbedding, d.embedding)

scoreAll(queryEmbedding, docs) ==
    [i \in 1..Len(docs) |->
        [id |-> docs[i].id, text |-> docs[i].text,
         sourceType |-> docs[i].sourceType, sourceName |-> docs[i].sourceName,
         score |-> scoreOf(queryEmbedding, docs[i])]]

\* scored.slice(0, 5)
sliceTop(scored) == SubSeq(scored, 1, Min(TopK, Len(scored)))

topKOf(queryEmbedding, docs) == sliceTop(sort(scoreAll(queryEmbedding, docs)))

\* contextText, as the pieces it is concatenated from.
NL == [tok |-> "\n"]
Header(i, d) ==
    [tok |-> "header", rank |-> i, sourceType |-> d.sourceType,
     sourceName |-> d.sourceName, score |-> toFixed3(d.score)]
TextOf(d) == [tok |-> "text", text |-> d.text]

rankOfZeroBased(i) == i - 1

\* i + 1 for the zero-based index of the loop; topK[i] here is one-based.
rankOf(i) == i

entryOf(topK, i) == <<Header(rankOf(i), topK[i]), NL, TextOf(topK[i])>>

\* part_000: every entry is followed by "\n\n".
RECURSIVE contextAppend(_, _)
contextAppend(topK, n) ==
    IF n = 0 THEN <<>>
    ELSE contextAppend(topK, n - 1) \o entryOf(topK, n) \o <<NL, NL>>

\* server.js, part_001: topK.map(...).join("\n\n").
RECURSIVE contextJoin(_, _)
contextJoin(topK, n) ==
    IF n = 0 THEN <<>>
    ELSE IF n = 1 THEN entryOf(topK, 1)
    ELSE contextJoin(topK, n - 1) \o <<NL, NL>> \o entryOf(topK, n)

contextTextOf(d, topK) ==
    IF IsFirestore(d) THEN contextJoin(topK, Len(topK))
    ELSE contextAppend(topK, Len(topK))

\* ---------------------------------------------- scoring and top-K alone
MaxRecords == 6        \* most records in a store that is ranked on its own

StoredEmbeddings == {<<>>, <<1, 0>>, <<1, 1>>}
QueryEmbeddings == {<<1, 0>>, <<0, 1>>, <<-1, -1, 1>>}

\* The document ids of n records committed in this order: the counter of
\* part_000, or auto-ids, which are unrelated to the order of commit.
IdOrders(d, n) ==
    IF IsFirestore(d)
    THEN {[i \in 1..n |-> i], [i \in 1..n |-> n + 1 - i]}
    ELSE {[i \in 1..n |-> i]}

TextOfLen(n) == [i \in 1..n |-> IF i % 2 = 1 THEN "a" ELSE "b"]

InitRank ==
    /\ deployment \in {"memory", "express"}
    /\ apiKey = "valid"
    /\ reqs = <<>>
    /\ \E n \in 0..MaxRecords :
        \E embs \in [1..n -> StoredEmbeddings], ids \in IdOrders(deployment, n) :
          /\ ragChunks = [i \in 1..n |->
                [id |-> ids[i], text |-> TextOfLen(i), embedding |-> embs[i],
                 sourceType |-> "doc", sourceName |-> "unknown", createdAt |-> i]]
          /\ nextId = n + 1
          /\ now = n
    /\ \E q \in QueryEmbeddings :
          call = [op |-> "rank", queryEmbedding |-> q, topK |-> <<>>,
                  contextText |-> <<>>, pc |-> "call"]

RankReturn ==
    /\ call.op = "rank" /\ call.pc = "call"
    /\ LET topK == topKOf(call.queryEmbedding, listAll(deployment, ragChunks))
       IN  call' = [call EXCEPT !.topK = topK,
                                !.contextText = contextTextOf(deployment, topK),
                                !.pc = "done"]
    /\ UNCHANGED mainVars

NextRank == RankReturn

SpecRank == InitRank /\ [][NextRank]_vars

\* The place of a record in the store, i.e. its place in the insertion order.
PlaceOf(id) == CHOOSE p \in 1..Len(ragChunks) : ragChunks[p].id = id

ScoreAt(q, p) == cosineSimilarity(q, ragChunks[p].embedding)

\* s ranks strictly before t: higher score, or equal score and earlier place.
RanksBefore(q, p1, p2) ==
    \/ Compare(ScoreAt(q, p1), ScoreAt(q, p2)) = 1
    \/ Compare(ScoreAt(q, p1), ScoreAt(q, p2)) = 0 /\ p1 < p2

IsTopKByInsertion(q, topK) ==
    LET k == Len(topK)
        place == [j \in 1..k |-> PlaceOf(topK[j].id)]
    IN  /\ k = Min(Len(ragChunks), 5)
        /\ \A j \in 1..k :
              /\ \E p \in 1..Len(ragChunks) : ragChunks[p].id = topK[j].id
              /\ topK[j].score = ScoreAt(q, place[j])
        /\ \A j \in 1..(k - 1) : RanksBefore(q, place[j], place[j + 1])
        /\ \A p \in 1..Len(ragChunks) :
              p \notin {place[j] : j \in 1..k} => RanksBefore(q, place[k], p)
        /\ \A p \in 1..Len(ragChunks) :
              p \notin {place[j] : j \in 1..k} =>
                  \A j \in 1..k : Compare(ScoreAt(q, p), topK[j].score) <= 0

\* C3: the candidates selected are exactly the first min(N, 5) records in
\* descending order of score, records of equal score in their insertion
\* order; no unselected record scores higher than a selected one.
C3_TopKInsertionOrder ==
    call.op = "rank" /\ call.pc = "done" =>
        IsTopKByInsertion(call.queryEmbedding, call.topK)

HeaderPlaces(block) == {p \in 1..Len(block) : block[p].tok = "header"}

\* C6: the block for K candidates has exactly K header lines, ranks 1..K in
\* order, rank i for the i-th highest-scoring candidate, each header followed
\* at once by that candidate's text, candidates a blank line apart; for K = 0
\* the block is empty.
C6_ContextBlock ==
    call.op = "rank" /\ call.pc = "done" =>
        LET block == call.contextText
            topK == call.topK
            K == Len(topK)
            \* the place of the i-th header, were the block laid out as claimed
            at(i) == 5 * (i - 1) + 1
        IN  /\ K <= 5
            /\ Cardinality(HeaderPlaces(block)) = K
            /\ K = 0 => block = <<>>
            /\ \A i \in 1..K :
                  /\ at(i) + 2 <= Len(block)
                  /\ block[at(i)] = Header(i, topK[i])
                  /\ block[at(i) + 1] = NL
                  /\ block[at(i) + 2] = TextOf(topK[i])
            /\ \A i \in 1..(K - 1) :
                  /\ block[at(i) + 3] = NL /\ block[at(i) + 4] = NL
                  /\ comparator(topK[i], topK[i + 1]) <= 0
            /\ \A p \in 1..Len(block) : p > at(K) + 2 => block[p] = NL

\* Five candidates out of six records, the scores not all equal.
C6_Witness ==
    /\ call.op = "rank" /\ call.pc = "done"
    /\ Len(ragChunks) = 6 /\ Len(call.topK) = 5
    /\ Cardinality(HeaderPlaces(call.contextText)) = 5
    /\ call.topK[1].score # call.topK[5].score

\* ================================================================ handlers
MaxReqs == 2           \* requests received in one run, possibly overlapping
MaxNow == 1            \* the clock stops advancing at this value

IsFunctions(d) == d \in {"functions", "functionsRag"}

\* !GEMINI_API_KEY || GEMINI_API_KEY.length < 20 (part_000 only)
keyNotConfigured(key) == key = "absent" \/ key = "short"

\* The provider rejects every call made without a valid key.
ProviderErrors(key) ==
    IF key = "valid" THEN {"429 quota exceeded", "503 model overloaded"}
    ELSE {"API key not valid"}
ProviderAnswers(key) == key = "valid"

Response(status, send) ==
    [status |-> status, send |-> send, chunks |-> 0, answer |-> "", topChunks |-> <<>>]
NoResponse == Response(0, <<>>)

NewReq(kind, method, present, value, src) ==
    [kind |-> kind, method |-> method, present |-> present, value |-> value,
     sourceType |-> src.sourceType, sourceName |-> src.sourceName,
     pc |-> "start", calls |-> <<>>, branch |-> "none",
     chunks |-> <<>>, batch |-> <<>>,
     batchRes |-> [returned |-> FALSE],   \* what batchEmbedContents resolved to
     ids |-> <<>>,                    \* the ids given to this request's records
     scored |-> <<>>,                 \* the scored array, before it is sorted
     queryEmbedding |-> [defined |-> FALSE, values |-> <<>>],
     topK |-> <<>>, prompt |-> [template |-> "none"],
     resp |-> [returned |-> FALSE],   \* what generateContent resolved to
     logged |-> "",                   \* err.message, as console.error got it
     res |-> NoResponse]

respond(r, res) == [r EXCEPT !.pc = "done", !.res = res]
await(r, what) == [r EXCEPT !.pc = what, !.calls = Append(r.calls, what)]

\* ------------------------------------------------- the catch blocks
\* part_000 appends err.message; server.js and part_001 send a fixed text.
catchBody(d, kind, message) ==
    IF d = "memory"
    THEN IF kind = "ingest"
         THEN <<"Error ingesting text on server: ", message>>
         ELSE <<"Error generating answer: ", message>>
    ELSE IF kind = "ingest" THEN <<"Error ingesting text">>
         ELSE <<"Error generating answer">>

\* A catch block that issues a failed provider call once more.
catchRetry(d, r, message) ==
    IF /\ r.calls # <<>> /\ Len(r.calls) < 4
       /\ r.calls[Len(r.calls)] \in {"batchEmbedContents", "embedContent", "generateContent"}
    THEN await(r, r.calls[Len(r.calls)])
    ELSE respond([r EXCEPT !.logged = message], Response(500, catchBody(d, r.kind, message)))

catch(d, r, message) ==
    respond([r EXCEPT !.logged = message], Response(500, catchBody(d, r.kind, message)))

\* ------------------------------------------------- the CORS prelude
\* part_001 answers OPTIONS and every other method but POST itself.
prelude(d, r) ==
    IF IsFunctions(d) /\ r.method = "OPTIONS" THEN respond(r, Response(204, <<"">>))
    ELSE IF IsFunctions(d) /\ r.method # "POST" THEN respond(r, Response(405, <<"Use POST">>))
    ELSE r

missingNoTrim(r) == ~r.present \/ r.value = <<>>

\* !text || !text.trim()
missing(r) == ~r.present \/ r.value = <<>> \/ trim(r.value) = <<>>

\* The key check of part_000; the Firestore deployments have none.
configCheck(d, key) == d = "memory" /\ keyNotConfigured(key)

\* ------------------------------------------------- ingestText
\* body.sourceType || "doc" (part_000) and the default of the destructuring
\* (server.js, part_001) agree on a missing field, modelled as "".
sourceDefault(given, default) == IF given = "" THEN default ELSE given

\* From the arrival of the request to its first await.
ingestStart(d, key, r0) ==
    LET r == prelude(d, r0)
    IN  IF r.pc = "done" THEN r
        ELSE IF missing(r) THEN respond(r, Response(400, <<"Missing text">>))
        ELSE IF configCheck(d, key)
             THEN respond(r, Response(500, <<"GEMINI_API_KEY is not configured on the server">>))
        ELSE await([r EXCEPT !.chunks = chunkText(r.value, DefaultMaxChars),
                             !.sourceType = sourceDefault(r.sourceType, "doc"),
                             !.sourceName = sourceDefault(r.sourceName, "unknown")],
                   "batchEmbedContents")

\* embeddings[i]?.values || []  /  Array.isArray(embeddings[i].values) ? ... : []
\* A missing vector stored as [0], not as [].
embeddingAtZero(embeddings, i) ==
    IF i <= Len(embeddings) /\ embeddings[i].hasValues THEN embeddings[i].values
    ELSE <<0>>

embeddingAt(embeddings, i) ==
    IF i <= Len(embeddings) /\ embeddings[i].hasValues THEN embeddings[i].values
    ELSE <<>>

\* A loop over the embeddings that came back instead of over the chunks.
recordsOfEmbedded(r, embeddings, ids, times) ==
    [i \in 1..Min(Len(embeddings), Len(r.chunks)) |->
        [id |-> ids[i], text |-> r.chunks[i], embedding |-> embeddingAt(embeddings, i),
         sourceType |-> r.sourceType, sourceName |-> r.sourceName,
         createdAt |-> times[i]]]

\* The records of one request: chunk i with embedding i, id ids[i] and the
\* clock reading times[i].
recordsOf(r, embeddings, ids, times) ==
    [i \in 1..Len(r.chunks) |->
        [id |-> ids[i], text |-> r.chunks[i], embedding |-> embeddingAt(embeddings, i),
         sourceType |-> r.sourceType, sourceName |-> r.sourceName,
         createdAt |-> times[i]]]

\* What batchEmbedContents can resolve to for n requests.
VectorFor(i) == IF i % 2 = 1 THEN <<1, 0>> ELSE <<1, 1>>
FullEmbeddings(n) == [i \in 1..n |-> [hasValues |-> TRUE, values |-> VectorFor(i)]]
BatchResponses(n) ==
    {[present |-> FALSE, list |-> <<>>],
     [present |-> TRUE, list |-> FullEmbeddings(n)],
     [present |-> TRUE, list |-> SubSeq(FullEmbeddings(n), 1, n - 1)],
     [present |-> TRUE,
      list |-> [i \in 1..n |-> IF i = 1 THEN [hasValues |-> FALSE, values |-> <<>>]
                               ELSE FullEmbeddings(n)[i]]]}

\* Successive readings of Date.now(), starting from the clock t.
ClockReadings(t, n) ==
    {ts \in [1..n -> t..MaxNow] :
        \A i \in 1..n : ts[i] >= (IF i = 1 THEN t ELSE ts[i - 1])}
LastReading(t, ts) == IF Len(ts) = 0 THEN t ELSE ts[Len(ts)]

\* col.doc(): auto-ids, distinct from every id handed out before and in no
\* relation to the order of the chunks.  Of the orders n new ids can be in,
\* the ascending and the descending one are drawn.
UsedIds ==
    {ragChunks[p].id : p \in 1..Len(ragChunks)} \cup
    UNION {Range(reqs[j].ids) : j \in 1..Len(reqs)}
FreshIds(n) ==
    LET base == Cardinality(UsedIds)
    IN  {[i \in 1..n |-> base + i], [i \in 1..n |-> base + n + 1 - i]}

Methods(d) == IF IsFunctions(d) THEN {"POST", "GET", "OPTIONS"} ELSE {"POST"}

ShortText == TextOfLen(3)
LongText == TextOfLen(DefaultMaxChars + 1)
NoSource == [sourceType |-> "", sourceName |-> ""]
Body(present, value, src) == [present |-> present, value |-> value, src |-> src]
IngestBodies ==
    {Body(FALSE, <<>>, NoSource),
     Body(TRUE, <<>>, NoSource),
     Body(TRUE, <<" ", "\t">>, NoSource),
     Body(TRUE, ShortText, NoSource),
     Body(TRUE, LongText, [sourceType |-> "audio", sourceName |-> "memo.wav"])}

\* The requests that can arrive: any body by POST; part_001 looks at the
\* method before the body.
Arrivals(d, bodies) ==
    {[method |-> "POST", body |-> b] : b \in bodies} \cup
    {[method |-> m, body |-> Body(FALSE, <<>>, NoSource)] : m \in Methods(d) \ {"POST"}}

IngestText ==
    /\ Len(reqs) < MaxReqs
    /\ \E a \in Arrivals(deployment, IngestBodies) :
          reqs' = Append(reqs, ingestStart(deployment, apiKey,
                      NewReq("ingest", a.method, a.body.present, a.body.value, a.body.src)))
    /\ UNCHANGED <<deployment, apiKey, ragChunks, nextId, now, call>>

BatchEmbedFails(i) ==
    /\ reqs[i].pc = "batchEmbedContents"
    /\ \E m \in ProviderErrors(apiKey) :
          reqs' = [reqs EXCEPT ![i] = catch(deployment, reqs[i], m)]
    /\ UNCHANGED <<deployment, apiKey, ragChunks, nextId, now, call>>

\* part_000: the push loop runs to its end and the response is sent.
BatchEmbedReturnsMemory(i) ==
    /\ reqs[i].pc = "batchEmbedContents" /\ deployment = "memory"
    /\ ProviderAnswers(apiKey)
    /\ \E batchRes \in BatchResponses(Len(reqs[i].chunks)),
          times \in ClockReadings(now, Len(reqs[i].chunks)) :
          LET n == Len(reqs[i].chunks)
              ids == [k \in 1..n |-> nextId + k - 1]
              records == recordsOf(reqs[i], batchRes.list, ids, times)
              r == [reqs[i] EXCEPT !.calls = Append(reqs[i].calls, "ragChunks.push"),
                                   !.batchRes = [returned |-> TRUE, value |-> batchRes],
                                   !.ids = ids]
          IN  /\ ragChunks' = ragChunks \o records
              /\ nextId' = nextId + n
              /\ now' = LastReading(now, times)
              /\ reqs' = [reqs EXCEPT ![i] =
                            respond(r, [Response(200, <<>>) EXCEPT !.chunks = n])]
    /\ UNCHANGED <<deployment, apiKey, call>>

\* server.js, part_001: the batch is filled, then batch.commit() is awaited.
BatchEmbedReturnsFirestore(i) ==
    /\ reqs[i].pc = "batchEmbedContents" /\ IsFirestore(deployment)
    /\ ProviderAnswers(apiKey)
    /\ \E batchRes \in BatchResponses(Len(reqs[i].chunks)),
          times \in ClockReadings(now, Len(reqs[i].chunks)),
          ids \in FreshIds(Len(reqs[i].chunks)) :
          /\ now' = LastReading(now, times)
          /\ reqs' = [reqs EXCEPT ![i] =
                await([reqs[i] EXCEPT !.batch = recordsOf(reqs[i], batchRes.list, ids, times),
                                      !.batchRes = [returned |-> TRUE, value |-> batchRes],
                                      !.ids = ids],
                      "commit")]
    /\ UNCHANGED <<deployment, apiKey, ragChunks, nextId, call>>

\* A commit that replaces the collection by the batch.
CommitReturnsReplace(i) ==
    /\ reqs[i].pc = "commit"
    /\ ragChunks' = reqs[i].batch
    /\ reqs' = [reqs EXCEPT ![i] =
          respond([reqs[i] EXCEPT !.batch = <<>>],
                  [Response(200, <<>>) EXCEPT !.chunks = Len(reqs[i].chunks)])]
    /\ UNCHANGED <<deployment, apiKey, nextId, now, call>>

CommitReturns(i) ==
    /\ reqs[i].pc = "commit"
    /\ ragChunks' = ragChunks \o reqs[i].batch
    /\ reqs' = [reqs EXCEPT ![i] =
          respond([reqs[i] EXCEPT !.batch = <<>>],
                  [Response(200, <<>>) EXCEPT !.chunks = Len(reqs[i].chunks)])]
    /\ UNCHANGED <<deployment, apiKey, nextId, now, call>>

CommitFails(i) ==
    /\ reqs[i].pc = "commit"
    /\ reqs' = [reqs EXCEPT ![i] =
          catch(deployment, [reqs[i] EXCEPT !.batch = <<>>], "commit failed")]
    /\ UNCHANGED <<deployment, apiKey, ragChunks, nextId, now, call>>

\* ------------------------------------------------- chatRag
\* part_001's second chatRag has no classifier: every message is embedded.
hasClassifier(d) == d # "functionsRag"

\* From the arrival of the request to its first await.
chatStart(d, key, r0) ==
    LET r == prelude(d, r0)
    IN  IF r.pc = "done" THEN r
        ELSE IF missing(r) THEN respond(r, Response(400, <<"Missing message">>))
        ELSE IF configCheck(d, key)
             THEN respond(r, Response(500, <<"GEMINI_API_KEY is not configured on the server">>))
        ELSE IF hasClassifier(d) /\ classify(r.value) = "Greeting"
             THEN await([r EXCEPT !.branch = "greeting",
                                  !.prompt = [template |-> "greeting", message |-> r.value]],
                        "generateContent")
        ELSE await([r EXCEPT !.branch = "rag"], "embedContent")

\* What embedContent can resolve to.
EmbedResponses ==
    {[hasEmbedding |-> FALSE, hasValues |-> FALSE, values |-> <<>>],
     [hasEmbedding |-> TRUE, hasValues |-> FALSE, values |-> <<>>],
     [hasEmbedding |-> TRUE, hasValues |-> TRUE, values |-> <<1, 0>>]}

\* Scoring, top-K, context and prompt; then generateContent is awaited.
retrieve(d, r, docs) ==
    LET topK == topKOf(r.queryEmbedding.values, docs)
    IN  await([r EXCEPT !.scored = scoreAll(r.queryEmbedding.values, docs),
                        !.topK = topK,
                        !.prompt = [template |-> "rag", message |-> r.value,
                                    contextText |-> contextTextOf(d, topK)]],
              "generateContent")

topChunksOf(topK) ==
    [i \in 1..Len(topK) |->
        [id |-> topK[i].id, sourceType |-> topK[i].sourceType,
         sourceName |-> topK[i].sourceName, score |-> topK[i].score]]

\* What generateContent can resolve to: resp.response.candidates[0].content.parts[0].text
Candidate(isNull, hasContent, parts) ==
    [isNull |-> isNull, hasContent |-> hasContent, parts |-> parts]
GenerateResponses ==
    {[hasResponse |-> FALSE, candidates |-> <<>>],
     [hasResponse |-> TRUE, candidates |-> <<>>],
     [hasResponse |-> TRUE, candidates |-> <<Candidate(TRUE, FALSE, <<>>)>>],
     [hasResponse |-> TRUE, candidates |-> <<Candidate(FALSE, FALSE, <<>>)>>],
     [hasResponse |-> TRUE, candidates |-> <<Candidate(FALSE, TRUE, <<>>)>>],
     [hasResponse |-> TRUE, candidates |-> <<Candidate(FALSE, TRUE, <<[text |-> ""]>>)>>],
     [hasResponse |-> TRUE,
      candidates |-> <<Candidate(FALSE, TRUE, <<[text |-> "It is blue."]>>)>>]}

\* The text of the first part of the first candidate, if there is one.
usable(resp) ==
    /\ resp.hasResponse
    /\ Len(resp.candidates) > 0
    /\ ~resp.candidates[1].isNull
    /\ resp.candidates[1].hasContent
    /\ Len(resp.candidates[1].parts) > 0
    /\ resp.candidates[1].parts[1].text # ""

extractThrowsOnEmpty(d, resp) ==
    d = "memory" /\ resp.hasResponse /\
        (Len(resp.candidates) = 0 \/ resp.candidates[1].isNull)

\* part_000 reads cand.content of candidates[0] without a guard on cand;
\* the optional chaining of server.js and part_001 stops at a null candidate.
extractThrows(d, resp) ==
    d = "memory" /\ resp.hasResponse /\ Len(resp.candidates) > 0
        /\ resp.candidates[1].isNull

defaultAnswer(d, branch) ==
    IF branch = "greeting"
    THEN IF d = "express" THEN "Hi! I'm your multimodal RAG assistant."
         ELSE "Hi! I'm your multimodal RAG assistant. You can upload text, images or audio and then ask questions about them."
    ELSE "(no answer)"
\* (the apostrophe of the source is U+2019)

answerOf(d, branch, resp) ==
    IF usable(resp) THEN resp.candidates[1].parts[1].text ELSE defaultAnswer(d, branch)

ChatBodies ==
    {Body(FALSE, <<>>, NoSource),
     Body(TRUE, <<" ">>, NoSource),
     Body(TRUE, <<"H", "i", "!">>, NoSource),
     Body(TRUE, <<"h", "i", " ", "a", " ", "b", " ", "c", " ", "d", " ", "e">>, NoSource),
     Body(TRUE, <<"w", "h", "y", "?">>, NoSource)}

ChatRag ==
    /\ Len(reqs) < MaxReqs
    /\ \E a \in Arrivals(deployment, ChatBodies) :
          reqs' = Append(reqs, chatStart(deployment, apiKey,
                      NewReq("query", a.method, a.body.present, a.body.value, a.body.src)))
    /\ UNCHANGED <<deployment, apiKey, ragChunks, nextId, now, call>>

EmbedFails(i) ==
    /\ reqs[i].pc = "embedContent"
    /\ \E m \in ProviderErrors(apiKey) :
          reqs' = [reqs EXCEPT ![i] = catch(deployment, reqs[i], m)]
    /\ UNCHANGED <<deployment, apiKey, ragChunks, nextId, now, call>>

\* part_000: a missing vector becomes [], and ragChunks is scored at once.
EmbedReturnsMemory(i) ==
    /\ reqs[i].pc = "embedContent" /\ deployment = "memory"
    /\ ProviderAnswers(apiKey)
    /\ \E embRes \in EmbedResponses :
          LET q == IF embRes.hasEmbedding /\ embRes.hasValues THEN embRes.values ELSE <<>>
              r == [reqs[i] EXCEPT !.queryEmbedding = [defined |-> TRUE, values |-> q],
                                   !.calls = Append(reqs[i].calls, "ragChunks.map")]
          IN  reqs' = [reqs EXCEPT ![i] = retrieve(deployment, r, listAll(deployment, ragChunks))]
    /\ UNCHANGED <<deployment, apiKey, ragChunks, nextId, now, call>>

\* server.js, part_001: embRes.embedding.values is read unguarded, then the
\* collection is fetched.
EmbedReturnsFirestore(i) ==
    /\ reqs[i].pc = "embedContent" /\ IsFirestore(deployment)
    /\ ProviderAnswers(apiKey)
    /\ \E embRes \in EmbedResponses :
          reqs' = [reqs EXCEPT ![i] =
              IF ~embRes.hasEmbedding
              THEN catch(deployment, reqs[i], "Cannot read properties of undefined")
              ELSE await([reqs[i] EXCEPT !.queryEmbedding =
                              [defined |-> embRes.hasValues, values |-> embRes.values]],
                         "get")]
    /\ UNCHANGED <<deployment, apiKey, ragChunks, nextId, now, call>>

GetFails(i) ==
    /\ reqs[i].pc = "get"
    /\ reqs' = [reqs EXCEPT ![i] = catch(deployment, reqs[i], "get failed")]
    /\ UNCHANGED <<deployment, apiKey, ragChunks, nextId, now, call>>

\* The snapshot is scored; cosineSimilarity of an undefined query vector
\* throws on the first document.
GetReturns(i) ==
    /\ reqs[i].pc = "get"
    /\ LET docs == listAll(deployment, ragChunks)
       IN  reqs' = [reqs EXCEPT ![i] =
              IF ~reqs[i].queryEmbedding.defined /\ docs # <<>>
              THEN catch(deployment, reqs[i], "Cannot read properties of undefined")
              ELSE retrieve(deployment, reqs[i], docs)]
    /\ UNCHANGED <<deployment, apiKey, ragChunks, nextId, now, call>>

GenerateFails(i) ==
    /\ reqs[i].pc = "generateContent"
    /\ \E m \in ProviderErrors(apiKey) :
          reqs' = [reqs EXCEPT ![i] = catch(deployment, reqs[i], m)]
    /\ UNCHANGED <<deployment, apiKey, ragChunks, nextId, now, call>>

GenerateReturns(i) ==
    /\ reqs[i].pc = "generateContent"
    /\ ProviderAnswers(apiKey)
    /\ \E resp \in GenerateResponses :
          LET r == [reqs[i] EXCEPT !.resp = [returned |-> TRUE, value |-> resp]]
          IN  reqs' = [reqs EXCEPT ![i] =
                  IF extractThrows(deployment, resp)
                  THEN catch(deployment, r, "Cannot read properties of null")
                  ELSE respond(r, [Response(200, <<>>) EXCEPT
                                      !.answer = answerOf(deployment, r.branch, resp),
                                      !.topChunks = topChunksOf(r.topK)])]
    /\ UNCHANGED <<deployment, apiKey, ragChunks, nextId, now, call>>

\* ------------------------------------------------- the server
Init ==
    /\ deployment \in {"memory", "express", "functions", "functionsRag"}
    /\ apiKey \in {"absent", "short", "valid"}
    /\ ragChunks = <<>>
    /\ nextId = 1
    /\ now = 0
    /\ reqs = <<>>
    /\ call = [op |-> "none"]

Next ==
    \/ IngestText
    \/ ChatRag
    \/ \E i \in 1..Len(reqs) : BatchEmbedFails(i)
    \/ \E i \in 1..Len(reqs) : BatchEmbedReturnsMemory(i)
    \/ \E i \in 1..Len(reqs) : BatchEmbedReturnsFirestore(i)
    \/ \E i \in 1..Len(reqs) : CommitReturns(i)
    \/ \E i \in 1..Len(reqs) : CommitFails(i)
    \/ \E i \in 1..Len(reqs) : EmbedFails(i)
    \/ \E i \in 1..Len(reqs) : EmbedReturnsMemory(i)
    \/ \E i \in 1..Len(reqs) : EmbedReturnsFirestore(i)
    \/ \E i \in 1..Len(reqs) : GetFails(i)
    \/ \E i \in 1..Len(reqs) : GetReturns(i)
    \/ \E i \in 1..Len(reqs) : GenerateFails(i)
    \/ \E i \in 1..Len(reqs) : GenerateReturns(i)

Spec == Init /\ [][Next]_vars

\* ================================================================== claims
Done(r) == r.pc = "done"
Made(r, what) == \E k \in 1..Len(r.calls) : r.calls[k] = what
ProviderCalls == {"batchEmbedContents", "embedContent", "generateContent"}
StoreReads == {"get", "ragChunks.map"}
StoreWrites == {"commit", "ragChunks.push"}
\* A POST whose required field is there and not blank.
Valid(r) == r.method = "POST" /\ r.present /\ ~IsBlank(r.value)
Blank(r) == r.method = "POST" /\ (~r.present \/ IsBlank(r.value))
IsGreetingMessage(r) == r.kind = "query" /\ Valid(r) /\ classify(r.value) = "Greeting"

\* C5: a query whose message is a greeting performs no retrieval: no call
\* of the embedding provider, no read of the chunk store, and an empty
\* topChunks in the successful response.
C5_GreetingNoRetrieval ==
    \A i \in 1..Len(reqs) :
        IsGreetingMessage(reqs[i]) =>
            /\ ~Made(reqs[i], "embedContent")
            /\ \A s \in StoreReads : ~Made(reqs[i], s)
            /\ reqs[i].res.status = 200 => reqs[i].res.topChunks = <<>>

\* C7: an Ingest with missing, empty or blank text and a Query with missing,
\* empty or blank message get a 4xx response, with no provider call made and
\* the chunk store untouched by that request.
C7_ValidationError ==
    \A i \in 1..Len(reqs) :
        Blank(reqs[i]) =>
            /\ Done(reqs[i])
            /\ reqs[i].res.status \in 400..499
            /\ reqs[i].calls = <<>>
            /\ reqs[i].batch = <<>>

\* A whitespace-only text and a missing message, both refused, while the
\* store holds what an earlier part of the run put there or nothing.
C7_Witness ==
    /\ Len(reqs) = 2
    /\ reqs[1].kind = "ingest" /\ reqs[1].present /\ reqs[1].value # <<>>
    /\ Blank(reqs[1]) /\ reqs[1].res.status = 400
    /\ reqs[2].kind = "query" /\ ~reqs[2].present
    /\ Blank(reqs[2]) /\ reqs[2].res.status = 400
    /\ ragChunks = <<>>

\* C8: without GEMINI_API_KEY every otherwise valid Ingest or Query gets a
\* 5xx response, and gets it before any embedding, generation or store call
\* is attempted.
C8_ConfigurationError ==
    apiKey = "absent" =>
        \A i \in 1..Len(reqs) :
            Valid(reqs[i]) =>
                /\ reqs[i].calls = <<>>
                /\ Done(reqs[i])
                /\ reqs[i].res.status \in 500..599

GenericMessage(kind) ==
    IF kind = "ingest" THEN <<"Error ingesting text">> ELSE <<"Error generating answer">>
FailedProviderCall(r) ==
    /\ Done(r) /\ r.logged \in ProviderErrors(apiKey)
    /\ r.calls # <<>> /\ r.calls[Len(r.calls)] \in ProviderCalls

\* C9: a failed embedding or generation call gives a 5xx response whose
\* body is the same for every provider failure of that operation and has no
\* part of the provider's error message in it.
C9_RedactedProviderError ==
    \A i \in 1..Len(reqs) :
        FailedProviderCall(reqs[i]) =>
            /\ reqs[i].res.status \in 500..599
            /\ reqs[i].res.send = GenericMessage(reqs[i].kind)
            /\ \A k \in 1..Len(reqs[i].res.send) : reqs[i].res.send[k] # reqs[i].logged

\* The cases of "no usable candidate" the claim lists.
NoCandidates(resp) == ~resp.hasResponse \/ Len(resp.candidates) = 0
NoParts(resp) ==
    /\ ~NoCandidates(resp) /\ ~resp.candidates[1].isNull
    /\ ~resp.candidates[1].hasContent \/ Len(resp.candidates[1].parts) = 0
EmptyText(resp) ==
    /\ ~NoCandidates(resp) /\ ~resp.candidates[1].isNull
    /\ resp.candidates[1].hasContent /\ Len(resp.candidates[1].parts) > 0
    /\ resp.candidates[1].parts[1].text = ""
FellBack(r) ==
    /\ r.resp.returned
    /\ NoCandidates(r.resp.value) \/ NoParts(r.resp.value) \/ EmptyText(r.resp.value)

FixedDefault(branch) ==
    IF branch = "greeting"
    THEN {"Hi! I'm your multimodal RAG assistant.",
          "Hi! I'm your multimodal RAG assistant. You can upload text, images or audio and then ask questions about them."}
    ELSE {"(no answer)"}

\* C10: on either branch, when generateContent resolves with no candidates,
\* no content parts or an empty text, the query succeeds with the branch's
\* fixed default string as its answer, never with an error response.
C10_DefaultAnswer ==
    \A i \in 1..Len(reqs) :
        FellBack(reqs[i]) =>
            /\ Done(reqs[i])
            /\ reqs[i].res.status = 200
            /\ reqs[i].res.answer \in FixedDefault(reqs[i].branch)
            /\ reqs[i].logged = ""

\* One fallback on each branch in the same run.
C10_Witness ==
    /\ Len(reqs) = 2
    /\ reqs[1].branch = "greeting" /\ FellBack(reqs[1])
    /\ NoCandidates(reqs[1].resp.value) /\ reqs[1].res.status = 200
    /\ reqs[2].branch = "rag" /\ FellBack(reqs[2])
    /\ EmptyText(reqs[2].resp.value) /\ reqs[2].res.status = 200

\* ------------------------------------------------- the chunk store
Succeeded(r) == Done(r) /\ r.res.status = 200
\* The records of the store that request r wrote, in store order.
RecordsFrom(r) == SelectSeq(ragChunks, LAMBDA rec : rec.id \in Range(r.ids))
\* The k-th window of width m over a text.
Window(text, m, k) == SubSeq(text, m * (k - 1) + 1, Min(m * k, Len(text)))

\* C11: an ingest is all-or-nothing.  Once it has answered 200 the store holds
\* exactly N = ceil(len(text) / 800) records of it, the k-th carrying the k-th
\* chunk of the text and the request's source fields, and the response reports
\* N chunks; as long as it has not answered 200 (still running, or failed at
\* validation, configuration, the embedding call or the commit) the store
\* holds no record of it.
C11_AllOrNothing ==
    \A i \in 1..Len(reqs) :
        reqs[i].kind = "ingest" =>
            LET r == reqs[i]
                N == CeilDiv(Len(r.value), DefaultMaxChars)
                mine == RecordsFrom(r)
            IN  IF Succeeded(r)
                THEN /\ Len(mine) = N
                     /\ r.res.chunks = N
                     /\ \A k \in 1..N :
                           /\ mine[k].text = Window(r.value, DefaultMaxChars, k)
                           /\ mine[k].id = r.ids[k]
                           /\ mine[k].sourceType = r.sourceType
                           /\ mine[k].sourceName = r.sourceName
                ELSE mine = <<>>

\* Two ingests of a two-chunk text: one answered 200 with both records stored,
\* the other failed after its embedding call with nothing stored.
C11_Witness ==
    \E i, j \in 1..Len(reqs) :
        /\ reqs[i].kind = "ingest" /\ Succeeded(reqs[i])
        /\ reqs[i].res.chunks = 2 /\ Len(RecordsFrom(reqs[i])) = 2
        /\ reqs[j].kind = "ingest" /\ Done(reqs[j]) /\ reqs[j].res.status = 500
        /\ Len(reqs[j].value) = DefaultMaxChars + 1
        /\ Made(reqs[j], "batchEmbedContents")
        /\ Len(ragChunks) = 2

\* ------------------------------------------------- partial embeddings
\* The batch response carries no usable vector for chunk k.
NoVector(list, k) == k > Len(list) \/ ~list[k].hasValues
Partial(r) ==
    /\ r.kind = "ingest" /\ r.batchRes.returned
    /\ \E k \in 1..Len(r.chunks) : NoVector(r.batchRes.value.list, k)
\* The query has scored a listing of the store.
Scored(r) == r.kind = "query" /\ r.branch = "rag" /\ Made(r, "generateContent")
StoredWithId(id) == CHOOSE rec \in Range(ragChunks) : rec.id = id
InTopK(r, id) == \E p \in 1..Len(r.topK) : r.topK[p].id = id

\* C12: a batch response without a vector for some chunks does not fail the
\* ingest: the request ends with 200 (a rejected commit being the only other
\* end) and every chunk has its record, with the vector that came back or an
\* empty embedding where none did.  A query that scores a record with an empty
\* embedding gives it the score 0 and keeps it among the candidates of the
\* top five, and a query whose own embedding is there never fails at scoring.
C12_PartialDegradation ==
    /\ \A i \in 1..Len(reqs) :
          Partial(reqs[i]) /\ Done(reqs[i]) =>
              LET r == reqs[i]
                  list == r.batchRes.value.list
                  mine == RecordsFrom(r)
              IN  /\ Succeeded(r) \/ (Made(r, "commit") /\ r.logged = "commit failed")
                  /\ Succeeded(r) =>
                        /\ Len(mine) = Len(r.chunks)
                        /\ \A k \in 1..Len(r.chunks) :
                              mine[k].embedding =
                                  IF NoVector(list, k) THEN <<>> ELSE list[k].values
    /\ \A i \in 1..Len(reqs) :
          LET q == reqs[i]
          IN  /\ Scored(q) =>
                    \A p \in 1..Len(q.scored) :
                        StoredWithId(q.scored[p].id).embedding = <<>> =>
                            /\ q.scored[p].score = Zero
                            /\ InTopK(q, q.scored[p].id) \/ Len(q.topK) = TopK
              /\ (q.kind = "query" /\ q.queryEmbedding.defined
                     /\ \E w \in StoreReads : Made(q, w) /\ q.pc # w)
                    => (Scored(q) \/ q.logged = "get failed")

\* An ingest whose batch response lacked a vector has answered 200, and a
\* query that answered 200 has one of its records, scored 0, in its top five.
C12_Witness ==
    \E i, j \in 1..Len(reqs) :
        /\ Partial(reqs[i]) /\ Succeeded(reqs[i])
        /\ Scored(reqs[j]) /\ Succeeded(reqs[j])
        /\ \E p \in 1..Len(reqs[j].topK) :
              /\ reqs[j].topK[p].id \in Range(reqs[i].ids)
              /\ StoredWithId(reqs[j].topK[p].id).embedding = <<>>
              /\ reqs[j].topK[p].score = Zero

\* ------------------------------------------------- snapshot reads
IdsOf(records) == {records[p].id : p \in 1..Len(records)}

\* C13: whatever the interleaving of ingests and queries, the records a query
\* scores are the content of the store at one instant: each once, with the
\* text it has in the store, and together the first k records of the store in
\* the order they became visible, for some k; so of every ingest the query
\* scores all records or none.
C13_SnapshotRead ==
    \A i \in 1..Len(reqs) :
        Scored(reqs[i]) =>
            LET scored == reqs[i].scored
                seen == IdsOf(scored)
            IN  /\ Cardinality(seen) = Len(scored)
                /\ \A p \in 1..Len(scored) :
                      /\ scored[p].id \in IdsOf(ragChunks)
                      /\ scored[p].text = StoredWithId(scored[p].id).text
                /\ \E k \in 0..Len(ragChunks) : seen = IdsOf(SubSeq(ragChunks, 1, k))
                /\ \A j \in 1..Len(reqs) :
                      reqs[j].kind = "ingest" =>
                          \/ Range(reqs[j].ids) \cap seen = {}
                          \/ Range(reqs[j].ids) \subseteq seen

\* A query that arrived before a two-chunk ingest, and read the store after
\* that ingest had written, scored both of its records.
C13_Witness ==
    \E i, j \in 1..Len(reqs) :
        /\ i < j /\ Scored(reqs[i]) /\ reqs[j].kind = "ingest"
        /\ Len(reqs[j].ids) = 2 /\ IdsOf(reqs[i].scored) = Range(reqs[j].ids)

\* ------------------------------------------------- createdAt
SameBatch(x, y) == \E j \in 1..Len(reqs) : {x.id, y.id} \subseteq Range(reqs[j].ids)

\* C14: createdAt never decreases from one batch to the next in the order the
\* batches became visible: a record of a batch that became visible earlier
\* has a createdAt no greater than a record of a batch that became visible
\* later, the clock itself never going back.
C14_CreatedAtMonotone ==
    \A p, q \in 1..Len(ragChunks) :
        (p < q /\ ~SameBatch(ragChunks[p], ragChunks[q]))
            => ragChunks[p].createdAt <= ragChunks[q].createdAt

\* ------------------------------------------------- append-only store
DistinctIds(store) ==
    \A p, q \in 1..Len(store) : p # q => store[p].id # store[q].id
\* The step is one of a query: its arrival or one of its continuations.
QueryStep ==
    \E i \in 1..Len(reqs') :
        /\ reqs'[i].kind = "query"
        /\ i > Len(reqs) \/ reqs'[i] # reqs[i]

\* C15: the store is append-only.  No step removes a record or changes one
\* of its fields (id, text, embedding, sourceType, sourceName, createdAt),
\* no two records of the store ever have the same id, and a step of a query,
\* on either branch and whether it succeeds or fails, leaves the store as it
\* was.
C15_AppendOnly ==
    [][/\ Len(ragChunks') >= Len(ragChunks)
       /\ \A p \in 1..Len(ragChunks) : ragChunks'[p] = ragChunks[p]
       /\ DistinctIds(ragChunks')
       /\ QueryStep => ragChunks' = ragChunks]_vars

\* A query has answered 200 over a store of two records of one ingest.
C15_Witness ==
    \E i, j \in 1..Len(reqs) :
        /\ reqs[i].kind = "ingest" /\ Succeeded(reqs[i]) /\ Len(reqs[i].ids) = 2
        /\ Scored(reqs[j]) /\ Succeeded(reqs[j]) /\ Len(reqs[j].scored) = 2
        /\ Len(ragChunks) = 2 /\ DistinctIds(ragChunks)

\* ------------------------------------------------- no retries
EmbeddingCalls == {"batchEmbedContents", "embedContent"}
GenerationCalls == {"generateContent"}
Count(calls, which) == Cardinality({k \in 1..Len(calls) : calls[k] \in which})
ProviderFailed(r) == r.logged \in ProviderErrors(apiKey)
CalledOnce(r) ==
    /\ Count(r.calls, EmbeddingCalls) <= 1
    /\ Count(r.calls, GenerationCalls) <= 1
    /\ (r.kind = "query" /\ Succeeded(r)) => Count(r.calls, GenerationCalls) = 1
    /\ ProviderFailed(r) =>
          /\ Done(r) /\ r.res.status >= 500
          /\ r.calls[Len(r.calls)] \in ProviderCalls

\* C16: no provider call is retried.  A request calls the embedding provider
\* at most once and the generation provider at most once, a query that
\* answers 200 has called the generation provider exactly once, and a request
\* one of whose provider calls failed has that call as its last call, has
\* answered with a 5xx status and takes no further step.
C16_NoRetry ==
    [][\A i \in 1..Len(reqs') :
          /\ CalledOnce(reqs'[i])
          /\ (i <= Len(reqs) /\ ProviderFailed(reqs[i])) => reqs'[i] = reqs[i]]_vars

\* A query whose generation call failed after its embedding call and its
\* store read, next to a request that went on after it.
C16_Witness ==
    \E i, j \in 1..Len(reqs) :
        /\ i < j /\ reqs[i].kind = "query" /\ ProviderFailed(reqs[i])
        /\ Count(reqs[i].calls, EmbeddingCalls) = 1
        /\ Count(reqs[i].calls, GenerationCalls) = 1
        /\ reqs[i].res.status = 500
        /\ reqs[j].kind = "query" /\ Succeeded(reqs[j]) /\ reqs[j].branch = "rag"
====
